---- MODULE Spec2Model ----
(***************************************************************************)
(* Identity reconciliation service: POST /identify -> identifyContact.     *)
(* The Contact table is shared by all requests in flight; every awaited    *)
(* prisma call of identifyContact is one atomic step of its request, and   *)
(* the code between two awaits runs with the step before it.               *)
(***************************************************************************)
EXTENDS Integers, Sequences, FiniteSets, TLC

\* ------------------------------------------------------------------ bounds
MaxContacts == 3
MaxInFlight == 2
MaxOverlaps == 1

\* --------------------------------------------------------------- constants
PRIMARY == "primary"
SECONDARY == "secondary"
Null == "null"
NoId == 0
\* the identifiers requests carry, in the order they first appear
EmailNames == <<"a1", "a2">>
PhoneNames == <<"p1", "p2">>
Emails == {EmailNames[i] : i \in 1..Len(EmailNames)}
Phones == {PhoneNames[i] : i \in 1..Len(PhoneNames)}
EmailInputs == Emails \cup {Null}
PhoneInputs == Phones \cup {Null}
\* the inputs of interleaved requests
ConcEmailInputs == {"a1", Null}
ConcPhoneInputs == Phones \cup {Null}
\* what the handler takes for a missing field
Absent == {Null, ""}
Procs == 1..MaxInFlight
SeqProcs == {1}

VARIABLES
  contacts,        \* the Contact table: contacts[i] is the row with id i
  clock,           \* the store's now(), never decreasing
  pc,              \* pc[p]: where request p stands in identifyContact
  email,           \* input.email of request p
  phoneNumber,     \* input.phoneNumber of request p
  directMatches,   \* rows returned by the step-1 findMany
  primaryIds,      \* the Set built in step 3
  oldestPrimary,   \* allPrimaries[0].id
  toDemote,        \* ids the step-6 loop has still to demote
  toRepoint,       \* ids the re-pointing loop has still to update
  response,        \* the HTTP response of request p
  overlaps,        \* requests begun while another was in flight
  pre,             \* history: the table when request p began
  writes,          \* history: create/update calls issued by request p
  prev             \* history: the previous response when p repeats its input

vars == <<contacts, clock, pc, email, phoneNumber, directMatches, primaryIds,
          oldestPrimary, toDemote, toRepoint, response, overlaps, pre, writes,
          prev>>

locals == <<directMatches, primaryIds, oldestPrimary, toDemote, toRepoint>>

\* ----------------------------------------------------------------- helpers
Range(s) == {s[i] : i \in 1..Len(s)}

\* JavaScript truthiness of an optional string
Truthy(s) == s # Null /\ s # ""

\* email ?? null (Null stands for both undefined and null)
OrNull(s) == IF s = Null THEN Null ELSE s

NoView == [primaryContactId |-> NoId, emails |-> <<>>, phoneNumbers |-> <<>>,
           secondaryContactIds |-> <<>>]

NoResponse == [status |-> 0, contact |-> NoView]

Rows == {contacts[i] : i \in 1..Len(contacts)}

\* ---------------------------------------------------------- prisma queries
\* email ? { email } : {}   -- a where-object with one condition or none
Clause(field, value) == IF Truthy(value) THEN <<field, value>> ELSE <<>>

\* an empty where-object taken as a condition every row meets
OrMatchesAny(clauses, c) ==
  \E i \in 1..Len(clauses) :
    \/ clauses[i] = <<>>
    \/ c[clauses[i][1]] = clauses[i][2]

\* OR: [...] -- an empty where-object is no filter and contributes no rows
OrMatches(clauses, c) ==
  \E i \in 1..Len(clauses) :
    /\ clauses[i] # <<>>
    /\ c[clauses[i][1]] = clauses[i][2]

\* Step 1
FindDirectMatches(store, e, ph) ==
  {c \in Range(store) :
     /\ OrMatches(<<Clause("email", e), Clause("phoneNumber", ph)>>, c)
     /\ c.deletedAt = Null}

\* every direct match taken for a Primary
CollectMatchedIds(matches) == {c.id : c \in matches}

\* Step 3
CollectPrimaryIds(matches) ==
  {c.id : c \in {m \in matches : m.linkPrecedence = PRIMARY}}
    \cup {c.linkedId : c \in {m \in matches : m.linkPrecedence # PRIMARY
                                              /\ m.linkedId # NoId}}

\* the cluster query without its linkedId clause
ClusterRowsByIdOnly(store, ids) ==
  {c \in Range(store) : c.id \in ids /\ c.deletedAt = Null}

\* where: OR [{id in ids}, {linkedId in ids}], deletedAt: null
ClusterRows(store, ids) ==
  {c \in Range(store) : (c.id \in ids \/ c.linkedId \in ids) /\ c.deletedAt = Null}

RECURSIVE OrderedByCreatedAt(_)
\* orderBy: { createdAt: "asc" } -- every order the store may return: rows of
\* equal createdAt come in any order
OrderedByCreatedAt(S) ==
  IF S = {} THEN {<<>>}
  ELSE UNION {{<<c>> \o s : s \in OrderedByCreatedAt(S \ {c})} :
                c \in {d \in S : \A e \in S : d.createdAt <= e.createdAt}}

RECURSIVE Filter(_, _)
Filter(s, prec) ==
  IF s = <<>> THEN <<>>
  ELSE IF Head(s).linkPrecedence = prec THEN <<Head(s)>> \o Filter(Tail(s), prec)
       ELSE Filter(Tail(s), prec)

\* Step 5
AllPrimaries(rel) == Filter(rel, PRIMARY)

\* the newest loaded Primary instead of the oldest
NewestPrimaryOf(rel) == AllPrimaries(rel)[Len(AllPrimaries(rel))].id

OldestPrimaryOf(rel) == AllPrimaries(rel)[1].id

RECURSIVE Ids(_)
Ids(s) == IF s = <<>> THEN <<>> ELSE <<Head(s).id>> \o Ids(Tail(s))

RECURSIVE Without(_, _)
Without(s, x) ==
  IF s = <<>> THEN <<>>
  ELSE IF Head(s) = x THEN Without(Tail(s), x)
       ELSE <<Head(s)>> \o Without(Tail(s), x)

\* the first loop left out
NoDemoteList(rel, oldest) == <<>>

\* Step 6, first loop: primary.id !== oldestPrimary.id
DemoteList(rel, oldest) == Without(Ids(AllPrimaries(rel)), oldest)

\* the second loop left out
NoRepointList(rel, oldest) == <<>>

RECURSIVE RepointList(_, _)
\* Step 6, second loop: SECONDARY in the snapshot and linkedId !== oldestPrimary.id
RepointList(rel, oldest) ==
  IF rel = <<>> THEN <<>>
  ELSE IF Head(rel).linkPrecedence = SECONDARY /\ Head(rel).linkedId # oldest
       THEN <<Head(rel).id>> \o RepointList(Tail(rel), oldest)
       ELSE RepointList(Tail(rel), oldest)

\* data of the demoting update
Demoted(c, oldest) == [c EXCEPT !.linkPrecedence = SECONDARY, !.linkedId = oldest]

\* the re-pointing update turning the row Primary
Promoted(c, oldest) == [c EXCEPT !.linkPrecedence = PRIMARY, !.linkedId = oldest]

\* data of the re-pointing update
Repointed(c, oldest) == [c EXCEPT !.linkedId = oldest]

\* a row as prisma.contact.create inserts it (id and createdAt are defaults)
NewRow(id, t, e, ph, prec, linked) ==
  [id |-> id, email |-> OrNull(e), phoneNumber |-> OrNull(ph),
   linkPrecedence |-> prec, linkedId |-> linked, createdAt |-> t,
   deletedAt |-> Null]

\* createdAt @default(now()): the clock may or may not have advanced since the
\* newest row was inserted
Timestamps == IF contacts = <<>> THEN {clock + 1} ELSE {clock, clock + 1}

RECURSIVE Includes(_, _, _)
\* existingEmails.includes(email) over finalContacts.map(c => c[field])
Includes(s, field, v) ==
  IF s = <<>> THEN FALSE
  ELSE Head(s)[field] = v \/ Includes(Tail(s), field, v)

\* Step 8
IsNewEmail(final, e) == Truthy(e) /\ ~Includes(final, "email", e)
IsNewPhone(final, ph) == Truthy(ph) /\ ~Includes(final, "phoneNumber", ph)
\* the test on the email alone
IsNewEmailOnly(final, e, ph) == IsNewEmail(final, e)

IsNewInfo(final, e, ph) == IsNewEmail(final, e) \/ IsNewPhone(final, ph)

\* ------------------------------------------------------------ buildResponse
Member(s, v) == \E i \in 1..Len(s) : s[i] = v

\* every truthy value pushed, seen or not
PushAlways(list, v) == IF Truthy(v) THEN Append(list, v) ELSE list

PushUnseen(list, v) == IF Truthy(v) /\ ~Member(list, v) THEN Append(list, v) ELSE list

RECURSIVE Collect(_, _, _, _)
Collect(cs, primaryId, field, acc) ==
  IF cs = <<>> THEN acc
  ELSE IF Head(cs).id = primaryId THEN Collect(Tail(cs), primaryId, field, acc)
       ELSE Collect(Tail(cs), primaryId, field, PushUnseen(acc, Head(cs)[field]))

PrimaryField(cs, primaryId, field) ==
  IF \E i \in 1..Len(cs) : cs[i].id = primaryId
  THEN LET i == CHOOSE k \in 1..Len(cs) :
                  cs[k].id = primaryId /\ \A j \in 1..(k - 1) : cs[j].id # primaryId
       IN  IF Truthy(cs[i][field]) THEN <<cs[i][field]>> ELSE <<>>
  ELSE <<>>

BuildResponse(primaryId, cs) ==
  [primaryContactId |-> primaryId,
   emails |-> Collect(cs, primaryId, "email", PrimaryField(cs, primaryId, "email")),
   phoneNumbers |-> Collect(cs, primaryId, "phoneNumber",
                            PrimaryField(cs, primaryId, "phoneNumber")),
   secondaryContactIds |-> Without(Ids(cs), primaryId)]

\* the new row's fields pushed without the null test
UncheckedContactView(newContact) ==
  [primaryContactId |-> newContact.id,
   emails |-> <<newContact.email>>,
   phoneNumbers |-> <<newContact.phoneNumber>>,
   secondaryContactIds |-> <<>>]

\* the view step 2 returns
NewContactView(newContact) ==
  [primaryContactId |-> newContact.id,
   emails |-> IF Truthy(newContact.email) THEN <<newContact.email>> ELSE <<>>,
   phoneNumbers |-> IF Truthy(newContact.phoneNumber)
                    THEN <<newContact.phoneNumber>> ELSE <<>>,
   secondaryContactIds |-> <<>>]

\* the rejection sent with status 200
Accepted == [status |-> 200, contact |-> NoView]

Ok(view) == [status |-> 200, contact |-> view]
ServerError == [status |-> 500, contact |-> NoView]
BadRequest == [status |-> 400, contact |-> NoView]

\* ------------------------------------------------------------------- state
Init ==
  /\ contacts = <<>>
  /\ clock = 0
  /\ pc = [p \in Procs |-> "idle"]
  /\ email = [p \in Procs |-> Null]
  /\ phoneNumber = [p \in Procs |-> Null]
  /\ directMatches = [p \in Procs |-> {}]
  /\ primaryIds = [p \in Procs |-> {}]
  /\ oldestPrimary = [p \in Procs |-> NoId]
  /\ toDemote = [p \in Procs |-> <<>>]
  /\ toRepoint = [p \in Procs |-> <<>>]
  /\ response = [p \in Procs |-> NoResponse]
  /\ overlaps = 0
  /\ pre = [p \in Procs |-> <<>>]
  /\ writes = [p \in Procs |-> 0]
  /\ prev = [p \in Procs |-> NoResponse]

Ready(p) == pc[p] \in {"idle", "done"}
InFlight(p) == ~Ready(p)
NumInFlight == Cardinality({p \in Procs : InFlight(p)})

\* whether identifyContact(e, ph), run alone on the table, would create a row
Creates(e, ph) ==
  LET dm == FindDirectMatches(contacts, e, ph)
      rel == ClusterRows(contacts, CollectPrimaryIds(dm))
  IN  \/ dm = {}
      \/ Truthy(e) /\ \A c \in rel : c.email # e
      \/ Truthy(ph) /\ \A c \in rel : c.phoneNumber # ph

\* requests in flight that may still issue a create: every one that has not
\* yet reached its last re-fetch
MayCreate == Cardinality({p \in Procs : InFlight(p) /\ pc[p] # "refetchUpdated"})

\* the table never outgrows MaxContacts: room is left for every create a
\* request in flight may still issue
HasRoom(e, ph) ==
  \/ Len(contacts) + MayCreate < MaxContacts
  \/ MayCreate = 0 /\ ~Creates(e, ph)

\* a request is served in the lowest free slot, once the responses of the
\* requests that returned have been sent
FreeSlot(p) ==
  /\ Ready(p)
  /\ \A q \in Procs : q < p => InFlight(q)
  /\ \A q \in Procs \ {p} : pc[q] # "done"

\* the request is a new one, or repeats the one slot p has just answered
Arrives(p, e, ph) ==
  /\ FreeSlot(p)
  /\ pc[p] = "done" => e = email[p] /\ ph = phoneNumber[p]

KnownEmails ==
  {contacts[i].email : i \in 1..Len(contacts)}
    \cup {email[q] : q \in {r \in Procs : InFlight(r)}}

KnownPhones ==
  {contacts[i].phoneNumber : i \in 1..Len(contacts)}
    \cup {phoneNumber[q] : q \in {r \in Procs : InFlight(r)}}

\* identifiers are only names: a first-seen identifier is the next unused name
NextName(names, known, v) ==
  \A i \in 1..Len(names) : names[i] = v => \A j \in 1..(i - 1) : names[j] \in known

CanStart(p, e, ph) ==
  /\ Arrives(p, e, ph)
  /\ NextName(EmailNames, KnownEmails, e)
  /\ NextName(PhoneNames, KnownPhones, ph)
  /\ HasRoom(e, ph)
  /\ NumInFlight > 0 => overlaps < MaxOverlaps

Finish(p, resp) ==
  /\ pc' = [pc EXCEPT ![p] = "done"]
  /\ response' = [response EXCEPT ![p] = resp]
  /\ directMatches' = [directMatches EXCEPT ![p] = {}]
  /\ primaryIds' = [primaryIds EXCEPT ![p] = {}]
  /\ oldestPrimary' = [oldestPrimary EXCEPT ![p] = NoId]
  /\ toDemote' = [toDemote EXCEPT ![p] = <<>>]
  /\ toRepoint' = [toRepoint EXCEPT ![p] = <<>>]

Remember(p, e, ph) ==
  prev' = [prev EXCEPT ![p] = IF pc[p] = "done" THEN response[p] ELSE NoResponse]

\* --------------------------------------------------------- POST /identify
\* the handler answers 400 when neither field is truthy
Reject(p, e, ph) ==
  /\ Arrives(p, e, ph)
  /\ ~Truthy(e) /\ ~Truthy(ph)
  /\ Remember(p, e, ph)
  /\ email' = [email EXCEPT ![p] = e]
  /\ phoneNumber' = [phoneNumber EXCEPT ![p] = ph]
  /\ pre' = [pre EXCEPT ![p] = contacts]
  /\ writes' = [writes EXCEPT ![p] = 0]
  /\ Finish(p, BadRequest)
  /\ UNCHANGED <<contacts, clock, overlaps>>

\* the handler calls identifyContact, whose first await is the step-1 findMany
Identify(p, e, ph) ==
  /\ CanStart(p, e, ph)
  /\ Truthy(e) \/ Truthy(ph)
  /\ Remember(p, e, ph)
  /\ email' = [email EXCEPT ![p] = e]
  /\ phoneNumber' = [phoneNumber EXCEPT ![p] = ph]
  /\ pre' = [pre EXCEPT ![p] = contacts]
  /\ writes' = [writes EXCEPT ![p] = 0]
  /\ response' = [response EXCEPT ![p] = NoResponse]
  /\ overlaps' = IF NumInFlight > 0 THEN overlaps + 1 ELSE overlaps
  /\ LET dm == FindDirectMatches(contacts, e, ph)
     IN  /\ directMatches' = [directMatches EXCEPT ![p] = dm]
         /\ primaryIds' = [primaryIds EXCEPT ![p] = CollectPrimaryIds(dm)]
         /\ pc' = [pc EXCEPT ![p] = IF dm = {} THEN "createPrimary" ELSE "loadCluster"]
  /\ UNCHANGED <<contacts, clock, oldestPrimary, toDemote, toRepoint>>

\* Step 2
CreatePrimary(p) ==
  /\ pc[p] = "createPrimary"
  /\ \E t \in Timestamps :
       LET newContact == NewRow(Len(contacts) + 1, t, email[p], phoneNumber[p],
                                PRIMARY, NoId)
       IN  /\ contacts' = Append(contacts, newContact)
           /\ clock' = t
           /\ Finish(p, Ok(NewContactView(newContact)))
  /\ writes' = [writes EXCEPT ![p] = @ + 1]
  /\ UNCHANGED <<email, phoneNumber, overlaps, pre, prev>>

AfterUpdates(dem, rep) ==
  IF dem # <<>> THEN "demote" ELSE IF rep # <<>> THEN "repoint" ELSE "refetch"

\* Steps 4 and 5; with no Primary loaded oldestPrimary is undefined and the
\* first read of oldestPrimary.id throws
LoadCluster(p) ==
  /\ pc[p] = "loadCluster"
  /\ \E rel \in OrderedByCreatedAt(ClusterRows(contacts, primaryIds[p])) :
       IF AllPrimaries(rel) = <<>>
       THEN /\ Finish(p, ServerError)
       ELSE LET oldest == OldestPrimaryOf(rel)
                dem == DemoteList(rel, oldest)
                rep == RepointList(rel, oldest)
            IN  /\ oldestPrimary' = [oldestPrimary EXCEPT ![p] = oldest]
                /\ toDemote' = [toDemote EXCEPT ![p] = dem]
                /\ toRepoint' = [toRepoint EXCEPT ![p] = rep]
                /\ pc' = [pc EXCEPT ![p] = AfterUpdates(dem, rep)]
                /\ UNCHANGED <<directMatches, primaryIds, response>>
  /\ UNCHANGED <<contacts, clock, email, phoneNumber, overlaps, pre, writes, prev>>

\* Step 6, one update of the first loop
Demote(p) ==
  /\ pc[p] = "demote"
  /\ LET id == Head(toDemote[p])
     IN  contacts' = [contacts EXCEPT ![id] = Demoted(@, oldestPrimary[p])]
  /\ toDemote' = [toDemote EXCEPT ![p] = Tail(@)]
  /\ pc' = [pc EXCEPT ![p] = AfterUpdates(Tail(toDemote[p]), toRepoint[p])]
  /\ writes' = [writes EXCEPT ![p] = @ + 1]
  /\ UNCHANGED <<clock, email, phoneNumber, directMatches, primaryIds, oldestPrimary,
                 toRepoint, response, overlaps, pre, prev>>

\* Step 6, one update of the second loop
Repoint(p) ==
  /\ pc[p] = "repoint"
  /\ LET id == Head(toRepoint[p])
     IN  contacts' = [contacts EXCEPT ![id] = Repointed(@, oldestPrimary[p])]
  /\ toRepoint' = [toRepoint EXCEPT ![p] = Tail(@)]
  /\ pc' = [pc EXCEPT ![p] = AfterUpdates(<<>>, Tail(toRepoint[p]))]
  /\ writes' = [writes EXCEPT ![p] = @ + 1]
  /\ UNCHANGED <<clock, email, phoneNumber, directMatches, primaryIds, oldestPrimary,
                 toDemote, response, overlaps, pre, prev>>

\* Steps 7, 8 (the test) and 9
Refetch(p) ==
  /\ pc[p] = "refetch"
  /\ \E finalContacts \in
          OrderedByCreatedAt(ClusterRows(contacts, {oldestPrimary[p]})) :
       IF IsNewInfo(finalContacts, email[p], phoneNumber[p])
       THEN /\ pc' = [pc EXCEPT ![p] = "createSecondary"]
            /\ UNCHANGED <<locals, response>>
       ELSE Finish(p, Ok(BuildResponse(oldestPrimary[p], finalContacts)))
  /\ UNCHANGED <<contacts, clock, email, phoneNumber, overlaps, pre, writes, prev>>

\* Step 8, the create
CreateSecondary(p) ==
  /\ pc[p] = "createSecondary"
  /\ \E t \in Timestamps :
       /\ contacts' = Append(contacts, NewRow(Len(contacts) + 1, t, email[p],
                                              phoneNumber[p], SECONDARY,
                                              oldestPrimary[p]))
       /\ clock' = t
  /\ pc' = [pc EXCEPT ![p] = "refetchUpdated"]
  /\ writes' = [writes EXCEPT ![p] = @ + 1]
  /\ UNCHANGED <<email, phoneNumber, locals, response, overlaps, pre, prev>>

\* Step 8, the last re-fetch and the return
RefetchUpdated(p) ==
  /\ pc[p] = "refetchUpdated"
  /\ \E updatedContacts \in
          OrderedByCreatedAt(ClusterRows(contacts, {oldestPrimary[p]})) :
       Finish(p, Ok(BuildResponse(oldestPrimary[p], updatedContacts)))
  /\ UNCHANGED <<contacts, clock, email, phoneNumber, overlaps, pre, writes, prev>>

\* a prisma call rejects; the handler's catch answers 500
StoreFails(p) ==
  /\ InFlight(p)
  /\ Finish(p, ServerError)
  /\ UNCHANGED <<contacts, clock, email, phoneNumber, overlaps, pre, writes, prev>>

\* res.json has sent the response; the request's locals are gone
Respond(p) ==
  /\ pc[p] = "done"
  /\ pc' = [pc EXCEPT ![p] = "idle"]
  /\ email' = [email EXCEPT ![p] = Null]
  /\ phoneNumber' = [phoneNumber EXCEPT ![p] = Null]
  /\ response' = [response EXCEPT ![p] = NoResponse]
  /\ pre' = [pre EXCEPT ![p] = <<>>]
  /\ writes' = [writes EXCEPT ![p] = 0]
  /\ prev' = [prev EXCEPT ![p] = NoResponse]
  /\ UNCHANGED <<contacts, clock, locals, overlaps>>

Step(p, es, phs) ==
  \/ \E e \in Absent, ph \in Absent : Reject(p, e, ph)
  \/ Respond(p)
  \/ \E e \in es, ph \in phs : Identify(p, e, ph)
  \/ CreatePrimary(p)
  \/ LoadCluster(p)
  \/ Demote(p)
  \/ Repoint(p)
  \/ Refetch(p)
  \/ CreateSecondary(p)
  \/ RefetchUpdated(p)

\* requests interleave at every await
Next == \E p \in Procs : Step(p, ConcEmailInputs, ConcPhoneInputs)
Spec == Init /\ [][Next]_vars

\* requests run one at a time
NextSeq == \E p \in SeqProcs : Step(p, EmailInputs, PhoneInputs)
SpecSeq == Init /\ [][NextSeq]_vars

\* one request at a time, over a store whose calls may fail
NextFail == \E p \in SeqProcs : Step(p, EmailInputs, PhoneInputs) \/ StoreFails(p)
SpecFail == Init /\ [][NextFail]_vars

\* ------------------------------------------------------------ observations
\* request p has returned a view
Returned(p) == pc[p] = "done" /\ response[p].status = 200

View(p) == response[p].contact

\* the id of the Primary a row resolves to: its own, or its linkedId
PrimaryOf(c) == IF c.linkPrecedence = PRIMARY THEN c.id ELSE c.linkedId

\* the row shares a provided identifier with the input
Shares(c, e, ph) ==
  \/ Truthy(e) /\ c.email = e
  \/ Truthy(ph) /\ c.phoneNumber = ph

\* ------------------------------------------------------------------ claims
\* X (email A) and Y (phone P) are independent Primaries before request p,
\* X created before Y, and p is Resolve(A, P)
MergePair(p, x, y) ==
  /\ x \in 1..Len(pre[p]) /\ y \in 1..Len(pre[p]) /\ x # y
  /\ Truthy(email[p]) /\ Truthy(phoneNumber[p])
  /\ pre[p][x].linkPrecedence = PRIMARY /\ pre[p][x].email = email[p]
  /\ pre[p][y].linkPrecedence = PRIMARY /\ pre[p][y].phoneNumber = phoneNumber[p]
  /\ pre[p][x].createdAt < pre[p][y].createdAt

\* C1: Resolve(A, P) over independent Primaries X (email A), created first, and
\* Y (phone P) leaves Y Secondary with linkedId X.id and X Primary, returns
\* primaryContactId = X.id and lists Y.id in secondaryContactIds.
C1_OldestWins ==
  \A p \in Procs : Returned(p) =>
    \A x, y \in 1..Len(pre[p]) : MergePair(p, x, y) =>
      /\ contacts[y].linkPrecedence = SECONDARY
      /\ contacts[y].linkedId = x
      /\ contacts[x].linkPrecedence = PRIMARY
      /\ View(p).primaryContactId = x
      /\ Member(View(p).secondaryContactIds, y)

C1_Witness ==
  \E p \in Procs : Returned(p) /\ \E x, y \in 1..Len(pre[p]) : MergePair(p, x, y)

\* Y was Primary before request p and is Secondary under X after it, and Z was
\* a Secondary of Y
Repointing(p, x, y, z) ==
  /\ y \in 1..Len(pre[p]) /\ z \in 1..Len(pre[p])
  /\ pre[p][y].linkPrecedence = PRIMARY
  /\ contacts[y].linkPrecedence = SECONDARY /\ contacts[y].linkedId = x
  /\ pre[p][z].linkPrecedence = SECONDARY /\ pre[p][z].linkedId = y

\* C2: with requests run one at a time, between requests every Secondary's
\* linkedId is the id of a row that is Primary, and a request that demotes Y
\* under X leaves every former Secondary of Y with linkedId X.id.
C2_NoChains ==
  /\ NumInFlight = 0 =>
       \A c \in Rows : c.linkPrecedence = SECONDARY =>
         /\ c.linkedId \in 1..Len(contacts)
         /\ contacts[c.linkedId].linkPrecedence = PRIMARY
  /\ \A p \in Procs : Returned(p) =>
       \A x \in 1..Len(contacts), y, z \in 1..Len(pre[p]) :
         Repointing(p, x, y, z) => contacts[z].linkedId = x

C2_Witness ==
  \E p \in Procs : Returned(p) /\
    \E x \in 1..Len(contacts), y, z \in 1..Len(pre[p]) : Repointing(p, x, y, z)

\* request p has loaded its cluster and not yet issued its last write
InSequence(p) == pc[p] \in {"demote", "repoint", "refetch", "createSecondary"}

\* the next step of request p is an update or a create
Writing(p) == pc[p] \in {"demote", "repoint", "createSecondary"}

\* C3: of two requests whose clusters overlap, at most one is between its
\* cluster load and its final write at a time: while one has a write to issue,
\* no other holds a load of an overlapping cluster.
C3_Serialized ==
  \A p, q \in Procs :
    p # q /\ Writing(p) /\ InSequence(q) => primaryIds[p] \cap primaryIds[q] = {}

\* requests p and q carry the same email or the same phone
SameIdentifier(p, q) ==
  \/ Truthy(email[p]) /\ email[p] = email[q]
  \/ Truthy(phoneNumber[p]) /\ phoneNumber[p] = phoneNumber[q]

\* C4: two requests carrying the same email (or phone) never both take the
\* no-match path, and once no request is in flight no two Primaries carry the
\* same email or the same phone.
C4_NoDoubleFirstSighting ==
  /\ \A p, q \in Procs :
       p # q /\ SameIdentifier(p, q) =>
         ~(pc[p] = "createPrimary" /\ pc[q] = "createPrimary")
  /\ NumInFlight = 0 =>
       \A c, d \in Rows :
         c.id # d.id /\ c.linkPrecedence = PRIMARY /\ d.linkPrecedence = PRIMARY =>
           ~Shares(c, d.email, d.phoneNumber)

\* exactly one of the two input fields of request p is provided
OneField(p) == Truthy(email[p]) # Truthy(phoneNumber[p])

\* step 1 of request p has run and nothing has been written since
AfterLookup(p) == pc[p] \in {"createPrimary", "loadCluster"}

\* the Primaries of the clusters, before request p, that hold no row sharing a
\* provided identifier with p's input
Strangers(p) ==
  {PrimaryOf(c) : c \in Range(pre[p])}
    \ {PrimaryOf(c) : c \in {d \in Range(pre[p]) : Shares(d, email[p], phoneNumber[p])}}

\* C5: with exactly one field provided, the direct matches are exactly the
\* non-deleted rows whose field equals it (the absent field's clause adds no
\* row), and a cluster holding no such row is left as it was: no row of it is
\* changed and no new row is linked to it.
C5_LookupPredicate ==
  \A p \in Procs : OneField(p) =>
    /\ AfterLookup(p) =>
         directMatches[p] =
           {c \in Range(pre[p]) :
              /\ c.deletedAt = Null
              /\ IF Truthy(email[p]) THEN c.email = email[p]
                 ELSE c.phoneNumber = phoneNumber[p]}
    /\ InFlight(p) \/ Returned(p) =>
         /\ \A i \in 1..Len(pre[p]) :
              PrimaryOf(pre[p][i]) \in Strangers(p) => contacts[i] = pre[p][i]
         /\ \A i \in (Len(pre[p]) + 1)..Len(contacts) :
              PrimaryOf(contacts[i]) \notin Strangers(p)

C5_Witness ==
  \E p \in Procs :
    /\ OneField(p) /\ Returned(p)
    /\ Strangers(p) # {}
    /\ \E c \in Range(pre[p]) : Shares(c, email[p], phoneNumber[p])

\* nothing in the table matched the input of request p when it began
NoMatch(p) == \A c \in Range(pre[p]) : ~Shares(c, email[p], phoneNumber[p])

\* C6: a request whose input matches no row creates exactly one row, Primary
\* with null linkedId and the given fields, returns the view of that row alone,
\* and leaves every earlier row unchanged.
C6_NoMatchCreatesPrimary ==
  \A p \in Procs : Returned(p) /\ NoMatch(p) =>
    /\ Len(contacts) = Len(pre[p]) + 1
    /\ \A i \in 1..Len(pre[p]) : contacts[i] = pre[p][i]
    /\ LET new == contacts[Len(contacts)]
       IN  /\ new.linkPrecedence = PRIMARY
           /\ new.linkedId = NoId
           /\ new.email = email[p]
           /\ new.phoneNumber = phoneNumber[p]
           /\ View(p) =
                [primaryContactId |-> new.id,
                 emails |-> IF Truthy(email[p]) THEN <<email[p]>> ELSE <<>>,
                 phoneNumbers |-> IF Truthy(phoneNumber[p])
                                  THEN <<phoneNumber[p]>> ELSE <<>>,
                 secondaryContactIds |-> <<>>]

C6_Witness ==
  \E p \in Procs : Returned(p) /\ NoMatch(p) /\ pre[p] # <<>> /\ OneField(p)

\* C7: a request that repeats the input of the request before it issues no
\* create and no update and returns the same view.
C7_RepeatIsIdempotent ==
  \A p \in Procs : Returned(p) /\ prev[p].status = 200 =>
    /\ writes[p] = 0
    /\ response[p] = prev[p]

\* the writing half of C7
C7_RepeatWritesNothing ==
  \A p \in Procs : Returned(p) /\ prev[p].status = 200 => writes[p] = 0

\* the rows, before request p, of the clusters its input matches
MatchedCluster(p) ==
  LET hit == {PrimaryOf(c) : c \in {d \in Range(pre[p]) :
                                      Shares(d, email[p], phoneNumber[p])}}
  IN  {c \in Range(pre[p]) : PrimaryOf(c) \in hit}

\* the input of request p matches a cluster and brings an email or a phone
\* the cluster does not hold
NewField(p) ==
  /\ MatchedCluster(p) # {}
  /\ \/ Truthy(email[p]) /\ \A c \in MatchedCluster(p) : c.email # email[p]
     \/ Truthy(phoneNumber[p])
          /\ \A c \in MatchedCluster(p) : c.phoneNumber # phoneNumber[p]

\* C8: a request that matches a cluster and brings a new email or a new phone
\* creates exactly one row, a Secondary with both input fields linked to the
\* surviving Primary; on a lone Primary (A, P), Resolve(A, Q) returns
\* phoneNumbers = [P, Q].
C8_NewFieldLinking ==
  \A p \in Procs : Returned(p) /\ NewField(p) =>
    /\ Len(contacts) = Len(pre[p]) + 1
    /\ LET new == contacts[Len(contacts)]
       IN  /\ new.linkPrecedence = SECONDARY
           /\ new.email = email[p]
           /\ new.phoneNumber = phoneNumber[p]
           /\ new.linkedId = View(p).primaryContactId
           /\ new.linkedId \in 1..Len(pre[p])
           /\ contacts[new.linkedId].linkPrecedence = PRIMARY
    /\ ( /\ Len(pre[p]) = 1
         /\ pre[p][1].email = email[p]
         /\ Truthy(pre[p][1].phoneNumber) )
       => View(p).phoneNumbers = <<pre[p][1].phoneNumber, phoneNumber[p]>>

C8_Witness ==
  \E p \in Procs :
    /\ Returned(p) /\ NewField(p)
    /\ Len(pre[p]) = 1
    /\ pre[p][1].email = email[p]
    /\ Truthy(pre[p][1].phoneNumber)

\* C9: a request that ends in a store failure leaves the table as it was when
\* the request began.
C9_NoPartialState ==
  \A p \in Procs :
    pc[p] = "done" /\ response[p].status = 500 => contacts = pre[p]

\* C10: no two rows of one cluster have equal email and equal phoneNumber.
C10_NoExactDuplicates ==
  \A c, d \in Rows :
    c.id # d.id /\ PrimaryOf(c) = PrimaryOf(d) =>
      ~(c.email = d.email /\ c.phoneNumber = d.phoneNumber)

\* the list holds no value twice
NoRepeat(s) == \A i, j \in 1..Len(s) : i # j => s[i] # s[j]

\* C11: in every returned view, emails holds no value twice and phoneNumbers
\* holds no value twice, however many rows of the cluster carry the value.
C11_DeDuplication ==
  \A p \in Procs : Returned(p) =>
    NoRepeat(View(p).emails) /\ NoRepeat(View(p).phoneNumbers)

C11_Witness ==
  \E p \in Procs : Returned(p) /\
    \E c, d \in Rows :
      /\ c.id # d.id
      /\ PrimaryOf(c) = View(p).primaryContactId
      /\ PrimaryOf(d) = View(p).primaryContactId
      /\ Truthy(c.email) /\ c.email = d.email

\* c comes before d in the oldest-first order: createdAt, then id
Older(c, d) ==
  \/ c.createdAt < d.createdAt
  \/ c.createdAt = d.createdAt /\ c.id < d.id

\* the rows of S oldest first
OldestFirst(S) ==
  CHOOSE s \in OrderedByCreatedAt(S) :
    \A i, j \in 1..Len(s) : i < j => Older(s[i], s[j])

\* the rows linked to the Primary with this id
SecondariesOf(id) ==
  {c \in Rows : c.id # id /\ c.linkedId = id /\ c.deletedAt = Null}

\* C12: in every returned view, secondaryContactIds lists exactly the rows linked
\* to primaryContactId, by ascending createdAt and, among equal createdAt, by
\* ascending id, and does not hold primaryContactId.
C12_OrderingStability ==
  \A p \in Procs : Returned(p) =>
    /\ View(p).secondaryContactIds =
         Ids(OldestFirst(SecondariesOf(View(p).primaryContactId)))
    /\ ~Member(View(p).secondaryContactIds, View(p).primaryContactId)

RECURSIVE FieldOf(_, _)
\* the field of each row of the sequence
FieldOf(rows, field) ==
  IF rows = <<>> THEN <<>> ELSE <<Head(rows)[field]>> \o FieldOf(Tail(rows), field)

RECURSIVE FirstSeen(_, _)
\* the present values of vals in the order of their first occurrence
FirstSeen(vals, acc) ==
  IF vals = <<>> THEN acc
  ELSE FirstSeen(Tail(vals),
                 IF Truthy(Head(vals)) /\ ~Member(acc, Head(vals))
                 THEN Append(acc, Head(vals)) ELSE acc)

\* the values of the field over the Primary, then its Secondaries oldest first
PrimaryThenOldestFirst(id, field) ==
  FirstSeen(<<contacts[id][field]>> \o FieldOf(OldestFirst(SecondariesOf(id)), field),
            <<>>)

\* the Primary's email and phone, when present, head the lists of the view
PrimaryHeadsLists ==
  \A p \in Procs : Returned(p) =>
    LET prim == contacts[View(p).primaryContactId]
    IN  /\ Truthy(prim.email) =>
             View(p).emails # <<>> /\ View(p).emails[1] = prim.email
        /\ Truthy(prim.phoneNumber) =>
             View(p).phoneNumbers # <<>> /\ View(p).phoneNumbers[1] = prim.phoneNumber

\* C13: in every returned view the surviving Primary's email, if it has one, is
\* the first of emails and its phone, if it has one, the first of phoneNumbers,
\* and the other values follow in first-seen order over the cluster's rows taken
\* oldest first.
C13_PrimaryFirst ==
  /\ PrimaryHeadsLists
  /\ \A p \in Procs : Returned(p) =>
       /\ View(p).emails = PrimaryThenOldestFirst(View(p).primaryContactId, "email")
       /\ View(p).phoneNumbers =
            PrimaryThenOldestFirst(View(p).primaryContactId, "phoneNumber")

\* C14: a request with neither field present is answered 400, identifyContact
\* is not called for it, and the table is left unchanged.
C14_InvalidInput ==
  \A p \in Procs :
    /\ InFlight(p) => Truthy(email[p]) \/ Truthy(phoneNumber[p])
    /\ pc[p] = "done" /\ ~Truthy(email[p]) /\ ~Truthy(phoneNumber[p]) =>
         /\ response[p].status = 400
         /\ contacts = pre[p]
         /\ writes[p] = 0

C14_Witness ==
  \E p \in Procs :
    /\ pc[p] = "done" /\ email[p] = "" /\ phoneNumber[p] = Null
    /\ contacts # <<>>

\* the Primaries, before request p, of the clusters its input matches
Implicated(p) == {PrimaryOf(c) : c \in MatchedCluster(p)}

\* the implicated Primary that is least by (createdAt, id)
Survivor(p) ==
  CHOOSE x \in Implicated(p) :
    \A y \in Implicated(p) \ {x} : Older(pre[p][x], pre[p][y])

\* C15: when a request implicates several Primaries, the one least by
\* (createdAt, id) survives: it stays Primary, it is the view's primaryContactId
\* and every other implicated Primary is demoted under it, whatever order the
\* store returns rows of equal createdAt in.
C15_SurvivorTieBreak ==
  \A p \in Procs : Returned(p) /\ Cardinality(Implicated(p)) > 1 =>
    /\ View(p).primaryContactId = Survivor(p)
    /\ contacts[Survivor(p)].linkPrecedence = PRIMARY
    /\ \A y \in Implicated(p) \ {Survivor(p)} :
         /\ contacts[y].linkPrecedence = SECONDARY
         /\ contacts[y].linkedId = Survivor(p)

\* the rows request p has demoted so far
DemotedBy(p) ==
  {i \in 1..Len(pre[p]) :
     pre[p][i].linkPrecedence = PRIMARY /\ contacts[i].linkPrecedence = SECONDARY}

\* C16: with requests run one at a time, a request on the match path collects
\* one or two distinct Primary ids from its direct matches and demotes at most
\* one Primary.
C16_AtMostTwoClusters ==
  \A p \in Procs :
    /\ InFlight(p) /\ pc[p] # "createPrimary" => Cardinality(primaryIds[p]) \in {1, 2}
    /\ Len(toDemote[p]) <= 1
    /\ InFlight(p) \/ Returned(p) => Cardinality(DemotedBy(p)) <= 1

C16_Witness ==
  \E p \in Procs :
    /\ pc[p] = "demote" /\ Cardinality(primaryIds[p]) = 2
    /\ Cardinality({c \in Rows : c.linkPrecedence = PRIMARY}) = 3

\* the rows request p has created or changed
WrittenBy(p) ==
  {i \in 1..Len(contacts) : i > Len(pre[p]) \/ contacts[i] # pre[p][i]}

\* C17: with requests run one at a time, a returned view describes the table
\* as the request left it: primaryContactId is a row that is Primary,
\* secondaryContactIds holds exactly the ids of the rows linked to it, every row
\* the request created or changed among them or the Primary, and emails and
\* phoneNumbers hold exactly the non-null emails and phones of these rows.
C17_ReadYourWrites ==
  \A p \in Procs : Returned(p) =>
    LET id == View(p).primaryContactId
        members == {contacts[id]} \cup SecondariesOf(id)
    IN  /\ id \in 1..Len(contacts)
        /\ contacts[id].linkPrecedence = PRIMARY
        /\ Range(View(p).secondaryContactIds) = {c.id : c \in SecondariesOf(id)}
        /\ WrittenBy(p) \subseteq {c.id : c \in members}
        /\ Range(View(p).emails) = {c.email : c \in members} \ {Null}
        /\ Range(View(p).phoneNumbers) = {c.phoneNumber : c \in members} \ {Null}

C17_Witness ==
  \E p \in Procs : Returned(p) /\ Cardinality(WrittenBy(p)) > 1

\* C18: with requests run one at a time, between requests no Secondary is
\* older, by (createdAt, id), than the Primary its linkedId names.
C18_PrimaryIsOldest ==
  NumInFlight = 0 =>
    \A c \in Rows :
      c.linkPrecedence = SECONDARY /\ c.linkedId \in 1..Len(contacts) =>
        Older(contacts[c.linkedId], c)

\* C19: with requests run one at a time, between requests any two rows that
\* carry the same email or the same phone resolve to the same Primary.
C19_IdentifierDisjoint ==
  NumInFlight = 0 =>
    \A c, d \in Rows :
      Shares(c, d.email, d.phoneNumber) => PrimaryOf(c) = PrimaryOf(d)

C19_Witness ==
  \E p \in Procs :
    /\ Returned(p) /\ DemotedBy(p) # {}
    /\ \E c \in Rows : PrimaryOf(c) # View(p).primaryContactId

\* C20: a returned view holds the request's email, when one was given, in
\* emails and its phone, when one was given, in phoneNumbers.
C20_InputCovered ==
  \A p \in Procs : Returned(p) =>
    /\ Truthy(email[p]) => Member(View(p).emails, email[p])
    /\ Truthy(phoneNumber[p]) => Member(View(p).phoneNumbers, phoneNumber[p])

\* row c may become row d in one step: nothing but a demotion of a Primary or
\* a new linkedId of a Secondary
MayBecome(c, d) ==
  /\ d.id = c.id /\ d.email = c.email /\ d.phoneNumber = c.phoneNumber
  /\ d.createdAt = c.createdAt /\ d.deletedAt = c.deletedAt
  /\ c.linkPrecedence = SECONDARY => d.linkPrecedence = SECONDARY
  /\ d.linkPrecedence = PRIMARY => d.linkedId = c.linkedId

\* C21: in every step of every interleaving no row is removed, no row's email
\* or phoneNumber changes, no Secondary becomes Primary, and a row changes only
\* by a Primary's demotion or by a new linkedId of a Secondary.
C21_DemotionOneWay ==
  [][/\ Len(contacts') >= Len(contacts)
     /\ \A i \in 1..Len(contacts) : MayBecome(contacts[i], contacts'[i])]_vars

C21_Witness ==
  \E p, q \in Procs :
    /\ p # q /\ InFlight(q) /\ DemotedBy(p) # {}
    /\ \E i \in 1..Len(pre[p]) :
         /\ pre[p][i].linkPrecedence = SECONDARY
         /\ contacts[i].linkedId # pre[p][i].linkedId

====
